---- MODULE Spec2Model ----
(***************************************************************************)
(* The quiz session engine of script.js: the question-bank load, the       *)
(* sampling of the session's questions, the presentation of one question   *)
(* at a time, the evaluation of a submitted option, and the summary.       *)
(*                                                                         *)
(* Text is modelled as a sequence of string pieces (the pieces a template  *)
(* literal concatenates), DOM elements by the properties the script reads  *)
(* or writes (textContent, the 'hidden' class, disabled, the children of   *)
(* the options container).  Colour and ring classes are not modelled.      *)
(***************************************************************************)
EXTENDS Integers, Sequences, FiniteSets, Bags, TLC

VARIABLES
    currentQuestionIndex,   \* script.js:22
    score,                  \* script.js:23
    questionAnswered,       \* script.js:24
    activeQuizQuestions,    \* script.js:25, a sequence of question records
    scoreDisplay,           \* textContent of #score-display
    questionText,           \* textContent of #question-text
    optionsContainer,       \* the option buttons, in document order
    nextButton,             \* [hidden |-> BOOLEAN]
    restartButton,          \* [hidden |-> BOOLEAN]
    resultMessage,          \* [textContent |-> ..., hidden |-> BOOLEAN]
    loads,                  \* the loadQuestionsAndInit calls in flight, a bag
    onloadFired,            \* whether window.onload has fired
    quizData,               \* the value the last res.json() resolved to
    loadStatus,             \* history: how the last settled load ended
    lastEvent,              \* history: the handler that ran last
    settledOrigin,          \* history: what started the load that settled last
    reordered,              \* history: the last sampling reordered the same records
    evaluated,              \* history: the evaluated submissions of the session
    showResultsCalls,       \* history: showResults calls since the last initQuiz
    presented               \* history: the questions shown since the last initQuiz

session == <<currentQuestionIndex, score, questionAnswered, activeQuizQuestions>>
dom == <<scoreDisplay, questionText, optionsContainer, nextButton, restartButton,
         resultMessage>>
history == <<evaluated, showResultsCalls, presented>>
loading == <<loads, onloadFired, quizData, loadStatus, settledOrigin, reordered>>
vars == <<session, dom, history, loading, lastEvent>>

---------------------------------------------------------------------------
(* Bounds of the model *)

\* Largest question bank the session specification loads.
MaxBank == 2
\* Math.random() is drawn from {0, 1/R, ..., (R-1)/R}.
RandomResolution == 2
\* Most loadQuestionsAndInit calls in flight at once.
MaxLoads == 2
\* The sampling specification loads banks of up to QUIZ_LENGTH + BankExcess.
BankExcess == 1
\* Math.random() resolution of the sampling specification.
SampleResolution == 2
\* Largest bank the shuffle specification loads; its Math.random() has this
\* resolution too, so that every index 0..i can be drawn.
MaxShuffle == 4

---------------------------------------------------------------------------
(* Program constants *)

QUIZ_LENGTH == 10

correctMessages ==
    << "Affirmative!", "Perfect resolution!", "Well done!",
       "You've got the satellite view.", "Mission success!" >>

incorrectMessages ==
    << "Missed the mark.", "Negative. Recalibrate your coordinates.",
       "That's not the right spectral band.", "Try again, surveyor.",
       "Nah, that ain't it..." >>

loadFailedText ==
    << "Failed to load questions. Please make sure questions.json is available." >>

quizCompleteText == << "Quiz Complete!" >>

perfectText == << "You've achieved perfect resolution! All correct!" >>

Min(a, b) == IF a < b THEN a ELSE b

Range(seq) == { seq[i] : i \in DOMAIN seq }

---------------------------------------------------------------------------
(* The random source and the shuffle *)

\* Mutant: Math.floor(Math.random() * i), which never draws j = i.
RandomIndexBelow(m, R) == { (k * (m - 1)) \div R : k \in 0..(R - 1) }

\* Math.floor(Math.random() * m) for Math.random() in {k/R : k in 0..R-1}.
RandomIndex(m, R) == { (k * m) \div R : k \in 0..(R - 1) }

\* The sequences of draws of one shuffleArray call on an array of n elements:
\* js[i] is the j drawn in the iteration with loop index i (i = 1..n-1).
RECURSIVE ChoiceSeqs(_, _)
ChoiceSeqs(n, R) ==
    IF n <= 1 THEN { <<>> }
    ELSE { Append(s, j) : s \in ChoiceSeqs(n - 1, R), j \in RandomIndex(n, R) }

\* Mutant: the swap writes array[i] only.
SwapOverwrites(array, i, j) ==
    [array EXCEPT ![i + 1] = array[j + 1]]

\* [array[i], array[j]] = [array[j], array[i]] with 0-based i, j.
Swap(array, i, j) ==
    [array EXCEPT ![i + 1] = array[j + 1], ![j + 1] = array[i + 1]]

RECURSIVE shuffleFrom(_, _, _)
shuffleFrom(array, i, js) ==
    IF i > 0 THEN shuffleFrom(Swap(array, i, js[i]), i - 1, js) ELSE array

shuffleArray(array, js) == shuffleFrom(array, Len(array) - 1, js)

\* Mutant: the slice keeps one element too many.
sliceInclusive(array, k) == SubSeq(array, 1, Min(k + 1, Len(array)))

\* Array.prototype.slice(0, k)
slice(array, k) == SubSeq(array, 1, Min(k, Len(array)))

---------------------------------------------------------------------------
(* The payloads questions.json can resolve to *)

Options(i) ==
    IF i = 2 THEN << "catfish", "sturgeon", "pike" >>
    ELSE << "catfish", "sturgeon" >>

\* The i-th record of a well-formed bank; its question text is unique.
BankRecord(i) ==
    [question |-> ToString(i), options |-> Options(i),
     answer |-> Options(i)[Len(Options(i))]]

\* A record without an options array.
MalformedRecord(i) == [question |-> ToString(i)]

Bank(n) == [i \in 1..n |-> BankRecord(i)]

MalformedBank(n) == [i \in 1..n |-> MalformedRecord(i)]

\* What res.json() can settle with: a rejection (the body is not JSON), a
\* value that cannot be spread, an array of question records, or an array
\* whose elements are not question records.
Payloads(maxN) ==
    { [kind |-> "invalid", data |-> <<>>], [kind |-> "object", data |-> <<>>] }
    \cup { [kind |-> "array", data |-> Bank(n)] : n \in 0..maxN }
    \cup { [kind |-> "array", data |-> MalformedBank(n)] : n \in 1..Min(maxN, 2) }

HasOptions(record) == "options" \in DOMAIN record

---------------------------------------------------------------------------
(* The script's state as one value, and the handlers as functions of it *)

State ==
    [currentQuestionIndex |-> currentQuestionIndex,
     score |-> score,
     questionAnswered |-> questionAnswered,
     activeQuizQuestions |-> activeQuizQuestions,
     scoreDisplay |-> scoreDisplay,
     questionText |-> questionText,
     optionsContainer |-> optionsContainer,
     nextButton |-> nextButton,
     restartButton |-> restartButton,
     resultMessage |-> resultMessage,
     evaluated |-> evaluated,
     showResultsCalls |-> showResultsCalls,
     presented |-> presented]

Becomes(s) ==
    /\ currentQuestionIndex' = s.currentQuestionIndex
    /\ score' = s.score
    /\ questionAnswered' = s.questionAnswered
    /\ activeQuizQuestions' = s.activeQuizQuestions
    /\ scoreDisplay' = s.scoreDisplay
    /\ questionText' = s.questionText
    /\ optionsContainer' = s.optionsContainer
    /\ nextButton' = s.nextButton
    /\ restartButton' = s.restartButton
    /\ resultMessage' = s.resultMessage
    /\ evaluated' = s.evaluated
    /\ showResultsCalls' = s.showResultsCalls
    /\ presented' = s.presented

updateScoreDisplay(s) ==
    LET n == Len(s.activeQuizQuestions)
        total == IF n # 0 THEN n ELSE QUIZ_LENGTH
    IN  [s EXCEPT !.scoreDisplay =
            << "Score: ", ToString(s.score), " / ", ToString(total) >>]

showMessage(s, message) ==
    [s EXCEPT !.resultMessage = [textContent |-> message, hidden |-> FALSE]]

\* Mutant: the perfect score is compared with QUIZ_LENGTH.
showResultsFixedTotal(s) ==
    LET n == Len(s.activeQuizQuestions)
        finalMessage ==
            IF s.score = QUIZ_LENGTH THEN perfectText
            ELSE << "You scored ", ToString(s.score), " out of ", ToString(n),
                    ". Keep learning about our world!" >>
    IN  showMessage(
            [s EXCEPT !.questionText = quizCompleteText,
                      !.optionsContainer = <<>>,
                      !.nextButton = [hidden |-> TRUE],
                      !.restartButton = [hidden |-> FALSE],
                      !.showResultsCalls = @ + 1],
            finalMessage)

\* Mutant: the next button is left as it is.
showResultsKeepsNext(s) ==
    LET n == Len(s.activeQuizQuestions)
        finalMessage ==
            IF s.score = n THEN perfectText
            ELSE << "You scored ", ToString(s.score), " out of ", ToString(n),
                    ". Keep learning about our world!" >>
    IN  showMessage(
            [s EXCEPT !.questionText = quizCompleteText,
                      !.optionsContainer = <<>>,
                      !.restartButton = [hidden |-> FALSE],
                      !.showResultsCalls = @ + 1],
            finalMessage)

showResults(s) ==
    LET n == Len(s.activeQuizQuestions)
        finalMessage ==
            IF s.score = n THEN perfectText
            ELSE << "You scored ", ToString(s.score), " out of ", ToString(n),
                    ". Keep learning about our world!" >>
    IN  showMessage(
            [s EXCEPT !.questionText = quizCompleteText,
                      !.optionsContainer = <<>>,
                      !.nextButton = [hidden |-> TRUE],
                      !.restartButton = [hidden |-> FALSE],
                      !.showResultsCalls = @ + 1],
            finalMessage)

\* loadQuestion throws a TypeError at line 103 when the current record has
\* no options to spread.
loadQuestionThrows(s) ==
    /\ s.currentQuestionIndex < Len(s.activeQuizQuestions)
    /\ ~HasOptions(s.activeQuizQuestions[s.currentQuestionIndex + 1])

\* Mutant: the onclick closes over the option as the answer.
OptionButtonOwnAnswer(option, answer) ==
    [textContent |-> option, correctAnswer |-> option, disabled |-> FALSE]

\* The button of one option; its onclick closes over option and current.answer.
OptionButton(option, answer) ==
    [textContent |-> option, correctAnswer |-> answer, disabled |-> FALSE]

\* Mutant: questionAnswered is not reset.
loadQuestionKeepsAnswered(s, js) ==
    IF s.currentQuestionIndex >= Len(s.activeQuizQuestions) THEN showResults(s)
    ELSE
        LET current == s.activeQuizQuestions[s.currentQuestionIndex + 1]
            shown == [s EXCEPT
                !.questionText = << "Q", ToString(s.currentQuestionIndex + 1),
                                    ": ", current.question >>,
                !.presented = Append(@, current.question),
                !.optionsContainer = <<>>,
                !.nextButton = [hidden |-> TRUE],
                !.resultMessage = [@ EXCEPT !.hidden = TRUE]]
        IN  IF ~HasOptions(current) THEN shown
            ELSE
                LET shuffledOptions == shuffleArray(current.options, js)
                IN  [shown EXCEPT !.optionsContainer =
                        [k \in 1..Len(shuffledOptions) |->
                            OptionButton(shuffledOptions[k], current.answer)]]

\* loadQuestion with the draws js of its option shuffle.  When it throws, the
\* result is the state at the throw.
loadQuestion(s, js) ==
    IF s.currentQuestionIndex >= Len(s.activeQuizQuestions) THEN showResults(s)
    ELSE
        LET current == s.activeQuizQuestions[s.currentQuestionIndex + 1]
            shown == [s EXCEPT
                !.questionText = << "Q", ToString(s.currentQuestionIndex + 1),
                                    ": ", current.question >>,
                !.presented = Append(@, current.question),
                !.optionsContainer = <<>>,
                !.nextButton = [hidden |-> TRUE],
                !.resultMessage = [@ EXCEPT !.hidden = TRUE],
                !.questionAnswered = FALSE]
        IN  IF ~HasOptions(current) THEN shown
            ELSE
                LET shuffledOptions == shuffleArray(current.options, js)
                IN  [shown EXCEPT !.optionsContainer =
                        [k \in 1..Len(shuffledOptions) |->
                            OptionButton(shuffledOptions[k], current.answer)]]

\* The draws loadQuestion can make in state s.
loadQuestionDraws(s, R) ==
    IF s.currentQuestionIndex >= Len(s.activeQuizQuestions) \/ loadQuestionThrows(s)
    THEN { <<>> }
    ELSE ChoiceSeqs(
            Len(s.activeQuizQuestions[s.currentQuestionIndex + 1].options), R)

\* Mutant: the score is not reset.
initQuizKeepsScore(s, js) ==
    LET reset == [s EXCEPT !.currentQuestionIndex = 0,
                           !.questionAnswered = FALSE,
                           !.evaluated = <<>>,
                           !.showResultsCalls = 0,
                           !.presented = <<>>]
        hidden == [updateScoreDisplay(reset) EXCEPT
                        !.restartButton = [hidden |-> TRUE],
                        !.resultMessage = [@ EXCEPT !.hidden = TRUE]]
    IN  loadQuestion(hidden, js)

\* Mutant: the index is not reset.
initQuizKeepsIndex(s, js) ==
    LET reset == [s EXCEPT !.score = 0,
                           !.questionAnswered = FALSE,
                           !.evaluated = <<>>,
                           !.showResultsCalls = 0,
                           !.presented = <<>>]
        hidden == [updateScoreDisplay(reset) EXCEPT
                        !.restartButton = [hidden |-> TRUE],
                        !.resultMessage = [@ EXCEPT !.hidden = TRUE]]
    IN  loadQuestion(hidden, js)

\* Mutant: questionAnswered is left to loadQuestion.
initQuizKeepsAnswered(s, js) ==
    LET reset == [s EXCEPT !.currentQuestionIndex = 0,
                           !.score = 0,
                           !.evaluated = <<>>,
                           !.showResultsCalls = 0,
                           !.presented = <<>>]
        hidden == [updateScoreDisplay(reset) EXCEPT
                        !.restartButton = [hidden |-> TRUE],
                        !.resultMessage = [@ EXCEPT !.hidden = TRUE]]
    IN  loadQuestion(hidden, js)

initQuiz(s, js) ==
    LET reset == [s EXCEPT !.currentQuestionIndex = 0,
                           !.score = 0,
                           !.questionAnswered = FALSE,
                           !.evaluated = <<>>,
                           !.showResultsCalls = 0,
                           !.presented = <<>>]
        hidden == [updateScoreDisplay(reset) EXCEPT
                        !.restartButton = [hidden |-> TRUE],
                        !.resultMessage = [@ EXCEPT !.hidden = TRUE]]
    IN  loadQuestion(hidden, js)

\* Mutant: the index skips a question.
nextQuestionSkips(s, js) ==
    loadQuestion([s EXCEPT !.currentQuestionIndex = @ + 2], js)

nextQuestion(s, js) ==
    loadQuestion([s EXCEPT !.currentQuestionIndex = @ + 1], js)

\* Mutant: every submission counts as correct.
isCorrectAlways(selectedOption, correctAnswer) == TRUE

\* const isCorrect = selectedOption === correctAnswer
isCorrect(selectedOption, correctAnswer) == selectedOption = correctAnswer

\* Mutant: the feedback on a wrong submission names the submitted option.
checkAnswerBodyNamesSelected(s, b, r) ==
    LET selectedOption == s.optionsContainer[b].textContent
        correctAnswer == s.optionsContainer[b].correctAnswer
        disabled == [s EXCEPT
            !.questionAnswered = TRUE,
            !.optionsContainer =
                [k \in DOMAIN @ |-> [@[k] EXCEPT !.disabled = TRUE]],
            !.evaluated = Append(@, [index |-> s.currentQuestionIndex,
                                     option |-> selectedOption])]
        judged ==
            IF isCorrect(selectedOption, correctAnswer)
            THEN showMessage([disabled EXCEPT !.score = @ + 1],
                             << correctMessages[r + 1] >>)
            ELSE showMessage(disabled,
                             << incorrectMessages[r + 1],
                                " The correct answer was: ", selectedOption, "." >>)
    IN  [updateScoreDisplay(judged) EXCEPT !.nextButton = [hidden |-> FALSE]]

\* checkAnswer past its guard, for the b-th button of the container; r is the
\* index drawn into the message pool.
checkAnswerBody(s, b, r) ==
    LET selectedOption == s.optionsContainer[b].textContent
        correctAnswer == s.optionsContainer[b].correctAnswer
        disabled == [s EXCEPT
            !.questionAnswered = TRUE,
            !.optionsContainer =
                [k \in DOMAIN @ |-> [@[k] EXCEPT !.disabled = TRUE]],
            !.evaluated = Append(@, [index |-> s.currentQuestionIndex,
                                     option |-> selectedOption])]
        judged ==
            IF isCorrect(selectedOption, correctAnswer)
            THEN showMessage([disabled EXCEPT !.score = @ + 1],
                             << correctMessages[r + 1] >>)
            ELSE showMessage(disabled,
                             << incorrectMessages[r + 1],
                                " The correct answer was: ", correctAnswer, "." >>)
    IN  [updateScoreDisplay(judged) EXCEPT !.nextButton = [hidden |-> FALSE]]

\* Mutant: no guard against a second call.
checkAnswerUnguarded(s, b, r) == checkAnswerBody(s, b, r)

\* Mutant: the guard is inverted.
checkAnswerOnlyAnswered(s, b, r) ==
    IF ~s.questionAnswered THEN s ELSE checkAnswerBody(s, b, r)

\* Mutant: the next button is left as it is.
checkAnswerKeepsNext(s, b, r) ==
    IF s.questionAnswered THEN s
    ELSE [checkAnswerBody(s, b, r) EXCEPT !.nextButton = s.nextButton]

\* checkAnswer(selectedButton, selectedOption, correctAnswer)
checkAnswer(s, b, r) ==
    IF s.questionAnswered THEN s ELSE checkAnswerBody(s, b, r)

\* The catch block of loadQuestionsAndInit.
catch(s) == [s EXCEPT !.questionText = loadFailedText]

\* The part of loadQuestionsAndInit after res.json() resolved to an array:
\* js are the draws of the bank shuffle, ks those of the first option shuffle.
sampleAndInit(s, data, js, ks) ==
    LET shuffled == shuffleArray(data, js)
        sampled == [s EXCEPT !.activeQuizQuestions = slice(shuffled, QUIZ_LENGTH)]
        started == initQuiz(sampled, ks)
    IN  IF loadQuestionThrows([sampled EXCEPT !.currentQuestionIndex = 0])
        THEN catch(started) ELSE started

---------------------------------------------------------------------------
(* Initial state: the script has been evaluated, window.onload is pending *)

\* The buttons' class in the page markup before the script touches them.
markupHidden == [hidden |-> TRUE]

Init ==
    /\ currentQuestionIndex = 0
    /\ score = 0
    /\ questionAnswered = FALSE
    /\ activeQuizQuestions = <<>>
    /\ scoreDisplay = <<>>
    /\ questionText = <<>>
    /\ optionsContainer = <<>>
    /\ nextButton = markupHidden
    /\ restartButton = markupHidden
    /\ resultMessage = [textContent |-> <<>>, hidden |-> TRUE]
    /\ loads = EmptyBag
    /\ onloadFired = FALSE
    /\ quizData = [kind |-> "none", data |-> <<>>]
    /\ loadStatus = "none"
    /\ lastEvent = "none"
    /\ settledOrigin = "none"
    /\ reordered = FALSE
    /\ evaluated = <<>>
    /\ showResultsCalls = 0
    /\ presented = <<>>

---------------------------------------------------------------------------
(* Actions *)

\* One call in flight: what started it and the await it is suspended at.
Load(origin, at) == SetToBag({ [origin |-> origin, at |-> at] })

\* loadQuestionsAndInit up to its first await.
StartLoad(origin) ==
    /\ BagCardinality(loads) < MaxLoads
    /\ loads' = loads (+) Load(origin, "fetch")

\* window.onload = loadQuestionsAndInit
WindowOnload ==
    /\ ~onloadFired
    /\ onloadFired' = TRUE
    /\ StartLoad("onload")
    /\ lastEvent' = "onload"
    /\ UNCHANGED <<session, dom, history, quizData, loadStatus, settledOrigin,
                   reordered>>

\* fetch() rejects, or resolves with a response that is not ok: the catch block.
FetchFails ==
    \E l \in BagToSet(loads) :
        /\ l.at = "fetch"
        /\ loads' = loads (-) Load(l.origin, "fetch")
        /\ Becomes(catch(State))
        /\ loadStatus' = "error"
        /\ lastEvent' = "fetchFails"
        /\ settledOrigin' = l.origin
        /\ UNCHANGED <<onloadFired, quizData, reordered>>

\* fetch() resolves with an ok response: on to await res.json().
FetchOk ==
    \E l \in BagToSet(loads) :
        /\ l.at = "fetch"
        /\ loads' = (loads (-) Load(l.origin, "fetch")) (+) Load(l.origin, "json")
        /\ lastEvent' = "fetchOk"
        /\ UNCHANGED <<session, dom, history, onloadFired, quizData, loadStatus,
                       settledOrigin, reordered>>

\* res.json() rejects, or resolves to a value that [...quizData] cannot spread.
JsonFails(payloads) ==
    \E l \in BagToSet(loads), p \in payloads :
        /\ l.at = "json"
        /\ p.kind \in {"invalid", "object"}
        /\ loads' = loads (-) Load(l.origin, "json")
        /\ Becomes(catch(State))
        /\ loadStatus' = "error"
        /\ quizData' = IF p.kind = "invalid" THEN quizData ELSE p
        /\ lastEvent' = "jsonFails"
        /\ settledOrigin' = l.origin
        /\ UNCHANGED <<onloadFired, reordered>>

\* res.json() resolves to an array: shuffle, slice, initQuiz.
JsonArray(payloads, R) ==
    \E l \in BagToSet(loads), p \in payloads :
        /\ l.at = "json"
        /\ p.kind = "array"
        /\ loads' = loads (-) Load(l.origin, "json")
        /\ quizData' = p
        /\ lastEvent' = "jsonArray"
        /\ settledOrigin' = l.origin
        /\ \E js \in ChoiceSeqs(Len(p.data), R) :
            LET sampled == [State EXCEPT !.activeQuizQuestions =
                                slice(shuffleArray(p.data, js), QUIZ_LENGTH),
                                         !.currentQuestionIndex = 0]
            IN  \E ks \in loadQuestionDraws(sampled, R) :
                    /\ Becomes(sampleAndInit(State, p.data, js, ks))
                    /\ loadStatus' = IF loadQuestionThrows(sampled)
                                     THEN "error" ELSE "ok"
        /\ reordered' = /\ activeQuizQuestions' # activeQuizQuestions
                        /\ Range(activeQuizQuestions') = Range(activeQuizQuestions)
                        /\ Len(activeQuizQuestions') = Len(activeQuizQuestions)
        /\ UNCHANGED onloadFired

\* A call of an option button's onclick, checkAnswer(button, option, answer).
CheckAnswer(R) ==
    \E b \in DOMAIN optionsContainer, r \in RandomIndex(Len(correctMessages), R) :
        /\ Becomes(checkAnswer(State, b, r))
        /\ lastEvent' = IF questionAnswered THEN "checkAnswerIgnored"
                                             ELSE "checkAnswer"
        /\ UNCHANGED loading

\* A click on the next button while it is shown.
ClickNext(R) ==
    /\ ~nextButton.hidden
    /\ \E js \in loadQuestionDraws(
                    [State EXCEPT !.currentQuestionIndex = @ + 1], R) :
            Becomes(nextQuestion(State, js))
    /\ lastEvent' = "next"
    /\ UNCHANGED loading

\* A click on the restart button while it is shown: a new load and sample.
ClickRestart ==
    /\ ~restartButton.hidden
    /\ StartLoad("restart")
    /\ lastEvent' = "restart"
    /\ UNCHANGED <<session, dom, history, onloadFired, quizData, loadStatus,
                   settledOrigin, reordered>>

Next ==
    \/ WindowOnload
    \/ FetchFails
    \/ FetchOk
    \/ JsonFails(Payloads(MaxBank))
    \/ JsonArray(Payloads(MaxBank), RandomResolution)
    \/ CheckAnswer(RandomResolution)
    \/ ClickNext(RandomResolution)
    \/ ClickRestart

Spec == Init /\ [][Next]_vars

\* The page load alone (window.onload's loadQuestionsAndInit), on banks of up
\* to QUIZ_LENGTH + BankExcess records.
SamplePayloads == Payloads(QUIZ_LENGTH + BankExcess)

NextSample ==
    \/ WindowOnload
    \/ FetchFails
    \/ FetchOk
    \/ JsonFails(SamplePayloads)
    \/ JsonArray(SamplePayloads, SampleResolution)

SpecSample == Init /\ [][NextSample]_vars

\* One page load and the session it starts, with a user who goes on
\* submitting an option and advancing for as long as the page offers them.
NextLive ==
    \/ WindowOnload
    \/ FetchFails
    \/ FetchOk
    \/ JsonFails(Payloads(MaxBank))
    \/ JsonArray(Payloads(MaxBank), RandomResolution)
    \/ CheckAnswer(RandomResolution)
    \/ ClickNext(RandomResolution)

SpecLive ==
    /\ Init
    /\ [][NextLive]_vars
    /\ WF_vars(CheckAnswer(RandomResolution))
    /\ WF_vars(ClickNext(RandomResolution))

\* The page load alone, on banks of up to MaxShuffle records, with a
\* Math.random() fine enough to draw every index of every shuffle.
ShufflePayloads == Payloads(MaxShuffle)

NextShuffle ==
    \/ WindowOnload
    \/ FetchFails
    \/ FetchOk
    \/ JsonFails(ShufflePayloads)
    \/ JsonArray(ShufflePayloads, MaxShuffle)

SpecShuffle == Init /\ [][NextShuffle]_vars

---------------------------------------------------------------------------
(* Notions the properties share *)

K == Len(activeQuizQuestions)

\* The session has reached its end: showResults ran since the last initQuiz.
Complete == showResultsCalls > 0

\* The current question has received an evaluated submission.
CurrentEvaluated ==
    \E e \in Range(evaluated) : e.index = currentQuestionIndex

\* The number of session questions whose evaluated submission was the answer.
CorrectCount ==
    Cardinality({ i \in 1..K :
        \E e \in Range(evaluated) :
            e.index = i - 1 /\ e.option = activeQuizQuestions[i].answer })

\* What one sampling of a bank can return.
Samples(data, R) ==
    { SubSeq(shuffleArray(data, js), 1,
             IF Len(data) < QUIZ_LENGTH THEN Len(data) ELSE QUIZ_LENGTH) :
        js \in ChoiceSeqs(Len(data), R) }

\* The number of occurrences of x in seq.
Count(seq, x) == Cardinality({ i \in DOMAIN seq : seq[i] = x })

\* The texts of the option buttons, in document order.
PresentedOptions ==
    [k \in DOMAIN optionsContainer |-> optionsContainer[k].textContent]

RECURSIVE Factorial(_)
Factorial(n) == IF n <= 1 THEN 1 ELSE n * Factorial(n - 1)

\* The rearrangements of array: array read through a one-to-one map of its
\* indices.
Rearrangements(array) ==
    LET I == DOMAIN array
    IN  { [i \in I |-> array[p[i]]] :
            p \in { q \in [I -> I] : \A a, b \in I : q[a] = q[b] => a = b } }

\* A step in which a load settles.
LoadSettles ==
    /\ lastEvent' \in {"fetchFails", "jsonFails", "jsonArray"}
    /\ BagCardinality(loads') < BagCardinality(loads)

\* A step in which a load settles with an array, so that initQuiz runs.
SessionStarts == LoadSettles /\ lastEvent' = "jsonArray"

---------------------------------------------------------------------------
(* Properties *)

\* C1: once a question is answered, a further checkAnswer call, with any
\* option, leaves score, currentQuestionIndex, questionAnswered and the
\* feedback message unchanged; the score grows only by 1, and only in the
\* step that answers a question.
C1_IdempotentEvaluation ==
    [][ /\ (questionAnswered /\ CheckAnswer(RandomResolution))
            => UNCHANGED <<score, currentQuestionIndex, questionAnswered,
                           resultMessage>>
        /\ score' > score
            => /\ score' = score + 1
               /\ ~questionAnswered /\ questionAnswered'
               /\ UNCHANGED <<currentQuestionIndex, activeQuizQuestions>>
      ]_vars

C1_Witness ==
    /\ lastEvent = "checkAnswerIgnored"
    /\ questionAnswered
    /\ score = 1

\* C2: at the end of a session in which every question got one evaluated
\* submission, the score is the number c of correct submissions, and the
\* summary is the perfect-score message iff c = K, else the message with c
\* and K.
C2_FinalScore ==
    (Complete /\ Len(evaluated) = K) =>
        /\ score = CorrectCount
        /\ resultMessage.textContent =
            IF CorrectCount = K THEN perfectText
            ELSE << "You scored ", ToString(CorrectCount), " out of ",
                    ToString(K), ". Keep learning about our world!" >>
        /\ ~resultMessage.hidden

C2_Witness ==
    /\ Complete
    /\ K = 2
    /\ Len(evaluated) = 2
    /\ CorrectCount = 1

\* C3: after a successful load of a bank of n records the session has
\* min(10, n) questions: 10 when n >= 10, n when n < 10.
C3_SampleSize ==
    loadStatus = "ok" =>
        LET n == Len(quizData.data)
        IN  /\ n >= 10 => K = 10
            /\ n < 10 => K = n

C3_Witness ==
    /\ loadStatus = "ok"
    /\ Len(quizData.data) = 11
    /\ K = 10

\* C4: after a successful load every session question is a record of the
\* loaded bank, and no bank record occurs twice among the session questions.
C4_WithoutReplacement ==
    loadStatus = "ok" =>
        /\ \A i \in 1..K :
            \E p \in DOMAIN quizData.data :
                quizData.data[p] = activeQuizQuestions[i]
        /\ \A p \in DOMAIN quizData.data :
            Cardinality({ i \in 1..K :
                activeQuizQuestions[i] = quizData.data[p] }) <= 1

C4_Witness ==
    /\ loadStatus = "ok"
    /\ K = 2
    /\ activeQuizQuestions # quizData.data
    /\ lastEvent = "next"

\* C5: a checkAnswer call on an unanswered question adds 1 to the score when
\* the submitted option equals the question's answer and nothing otherwise;
\* it sets questionAnswered and leaves the index and the question set alone.
C5_EvaluationEffect ==
    [][ (~questionAnswered /\ CheckAnswer(RandomResolution)) =>
            LET submitted == evaluated'[Len(evaluated')].option
                answer == activeQuizQuestions[currentQuestionIndex + 1].answer
            IN  /\ Len(evaluated') = Len(evaluated) + 1
                /\ score' = score + (IF submitted = answer THEN 1 ELSE 0)
                /\ questionAnswered'
                /\ UNCHANGED <<currentQuestionIndex, activeQuizQuestions>>
      ]_vars

C5_Witness ==
    /\ lastEvent = "checkAnswer"
    /\ questionAnswered
    /\ currentQuestionIndex = 1
    /\ score = 1
    /\ Len(evaluated) = 2

\* C6: a load that fails (fetch rejected, response not ok, malformed payload)
\* shows the load-failure message, leaves score, currentQuestionIndex,
\* questionAnswered and activeQuizQuestions as they were, and starts no load.
C6_FailedLoadLeavesSession ==
    [][ (LoadSettles /\ loadStatus' = "error") =>
            /\ questionText' = loadFailedText
            /\ UNCHANGED session
            /\ BagCardinality(loads') = BagCardinality(loads) - 1
      ]_vars

\* C7: a load that returns an empty bank is a load error: the load-failure
\* message is shown, no session is started and no summary is displayed.
C7_EmptyBankIsLoadError ==
    (lastEvent = "jsonArray" /\ quizData.kind = "array" /\ Len(quizData.data) = 0) =>
        /\ questionText = loadFailedText
        /\ showResultsCalls = 0
        /\ resultMessage.hidden

C9_AnsweredResetOnEveryChange ==
    /\ [](questionAnswered <=> CurrentEvaluated)
    /\ [][currentQuestionIndex' # currentQuestionIndex => ~questionAnswered']_vars

\* C9 as amended: while a question is presented, questionAnswered holds iff
\* that question has an evaluated submission; a change of the index that
\* presents a question, and every session start, leaves questionAnswered
\* false; the advance that reaches the end leaves it as it was.
C9_AnsweredWhilePresented ==
    /\ [](currentQuestionIndex < K => (questionAnswered <=> CurrentEvaluated))
    /\ [][ /\ (currentQuestionIndex' # currentQuestionIndex
                    /\ currentQuestionIndex' < Len(activeQuizQuestions'))
                => ~questionAnswered'
           /\ SessionStarts => ~questionAnswered'
           /\ (currentQuestionIndex' # currentQuestionIndex
                    /\ currentQuestionIndex' = Len(activeQuizQuestions')
                    /\ lastEvent' = "next")
                => questionAnswered' = questionAnswered
         ]_vars

C9_Witness ==
    /\ lastEvent = "next"
    /\ currentQuestionIndex = 1
    /\ currentQuestionIndex < K
    /\ ~questionAnswered
    /\ Len(evaluated) = 1

\* C10: showResults runs once per session, and only with the index at the
\* end of the question set; once the session is complete, no step but the
\* start of a new session (the restart's load settling) changes the score,
\* the index, the question set or the summary message.
C10_SummaryOnce ==
    /\ [](/\ showResultsCalls <= 1
          /\ Complete => currentQuestionIndex = K
          /\ (currentQuestionIndex >= K /\ (K > 0 \/ loadStatus = "ok"))
                => Complete
          /\ ~restartButton.hidden <=> Complete)
    /\ [][ (Complete /\ ~SessionStarts) =>
                UNCHANGED <<score, currentQuestionIndex, resultMessage,
                            activeQuizQuestions>>
         ]_vars

C10_Witness ==
    /\ Complete
    /\ K = 2
    /\ lastEvent = "restart"

\* C11: in every reachable state 0 <= score <= K; a step that is not a session
\* start (initQuiz) never lowers the score, and only a session start takes a
\* non-zero score to 0.
C11_ScoreBounds ==
    /\ [](0 <= score /\ score <= K)
    /\ [][ /\ ~SessionStarts => score' >= score
           /\ (score' < score) => (SessionStarts /\ score' = 0)
         ]_vars

\* Every question of a session of two was answered correctly.
C11_Witness ==
    /\ lastEvent = "checkAnswer"
    /\ K = 2
    /\ score = K

\* C12: while a question is presented, the option buttons are a permutation
\* of the record's options (same length, every text as often as among the
\* options); when the answer is one of the options, it is the text of a
\* button and exactly one button evaluates as correct.
C12_OptionsPermuted ==
    (currentQuestionIndex < K
        /\ HasOptions(activeQuizQuestions[currentQuestionIndex + 1])) =>
        LET current == activeQuizQuestions[currentQuestionIndex + 1]
        IN  /\ Len(PresentedOptions) = Len(current.options)
            /\ \A o \in Range(current.options) \cup Range(PresentedOptions) :
                    Count(PresentedOptions, o) = Count(current.options, o)
            /\ current.answer \in Range(current.options) =>
                    /\ current.answer \in Range(PresentedOptions)
                    /\ Cardinality({ k \in DOMAIN optionsContainer :
                            isCorrect(optionsContainer[k].textContent,
                                      optionsContainer[k].correctAnswer) }) = 1

\* Three options are presented in an order that is not the record's.
C12_Witness ==
    /\ currentQuestionIndex < K
    /\ ~questionAnswered
    /\ Len(optionsContainer) = 3
    /\ optionsContainer[1].textContent = "pike"
    /\ activeQuizQuestions[currentQuestionIndex + 1].options[1] = "catfish"

\* C13: the feedback of an evaluated submission is one element of
\* correctMessages when the submission is the answer, and otherwise one
\* element of incorrectMessages followed by " The correct answer was: ", the
\* answer and "."; a wrong submission leaves the score as it was and sets
\* questionAnswered, e.g. "catfish" against "sturgeon" gives a message that
\* ends with "The correct answer was: sturgeon.".
C13_FeedbackFormat ==
    /\ [](lastEvent = "checkAnswer" =>
            LET submitted == evaluated[Len(evaluated)].option
                answer == activeQuizQuestions[currentQuestionIndex + 1].answer
                text == resultMessage.textContent
            IN  /\ ~resultMessage.hidden
                /\ questionAnswered
                /\ submitted = answer =>
                        text \in { << m >> : m \in Range(correctMessages) }
                /\ submitted # answer =>
                        text \in { << m, " The correct answer was: ", answer, "." >> :
                                        m \in Range(incorrectMessages) }
                /\ (submitted = "catfish" /\ answer = "sturgeon") =>
                        SubSeq(text, Len(text) - 2, Len(text)) =
                            << " The correct answer was: ", "sturgeon", "." >>)
    /\ [][ (~questionAnswered /\ CheckAnswer(RandomResolution)
                /\ evaluated'[Len(evaluated')].option
                        # activeQuizQuestions[currentQuestionIndex + 1].answer)
                => (score' = score /\ questionAnswered')
         ]_vars

\* "catfish" was submitted against "sturgeon".
C13_Witness ==
    /\ lastEvent = "checkAnswer"
    /\ evaluated[Len(evaluated)].option = "catfish"
    /\ activeQuizQuestions[currentQuestionIndex + 1].answer = "sturgeon"
    /\ score = 0
    /\ questionAnswered
    /\ resultMessage.textContent[3] = "sturgeon"

\* C14: nextQuestion adds exactly 1 to currentQuestionIndex and changes
\* neither the score nor the question set; it ends the session when the new
\* index is K and otherwise presents the next question with questionAnswered
\* false; at the end of a session the questions presented are the K session
\* questions, each once, in the order of the set.
C14_Advance ==
    /\ [][ ClickNext(RandomResolution) =>
            /\ currentQuestionIndex' = currentQuestionIndex + 1
            /\ UNCHANGED <<score, activeQuizQuestions>>
            /\ currentQuestionIndex + 1 = K => (~Complete /\ Complete')
            /\ currentQuestionIndex + 1 # K =>
                    /\ ~Complete'
                    /\ currentQuestionIndex' < K
                    /\ ~questionAnswered'
                    /\ presented' = Append(presented,
                            activeQuizQuestions[currentQuestionIndex + 2].question)
         ]_vars
    /\ [](Complete =>
            presented = [i \in 1..K |-> activeQuizQuestions[i].question])

\* The second advance of a session of two ended it.
C14_Witness ==
    /\ lastEvent = "next"
    /\ Complete
    /\ K = 2
    /\ currentQuestionIndex = 2
    /\ Len(presented) = 2

\* C15: the next button is visible iff a question is presented
\* (currentQuestionIndex < K) and questionAnswered holds; nextQuestion itself
\* advances whatever questionAnswered is; the restart button is visible only
\* after showResults has run.
C15_ButtonsOffered ==
    /\ ~nextButton.hidden <=> (currentQuestionIndex < K /\ questionAnswered)
    /\ ~restartButton.hidden => Complete
    /\ \A js \in loadQuestionDraws(
                    [State EXCEPT !.currentQuestionIndex = @ + 1],
                    RandomResolution) :
            nextQuestion(State, js).currentQuestionIndex = currentQuestionIndex + 1

\* The second question of two has been evaluated and the advance is offered.
C15_Witness ==
    /\ lastEvent = "checkAnswer"
    /\ ~nextButton.hidden
    /\ restartButton.hidden
    /\ currentQuestionIndex = 1
    /\ K = 2

\* C16: under the actions the interface offers, 0 <= currentQuestionIndex <= K
\* in every reachable state, and the index changes only by +1, in an advance,
\* or to 0, in a session start.
C16_IndexRange ==
    /\ [](0 <= currentQuestionIndex /\ currentQuestionIndex <= K)
    /\ [][ currentQuestionIndex' # currentQuestionIndex =>
            \/ /\ currentQuestionIndex' = currentQuestionIndex + 1
               /\ lastEvent' = "next"
            \/ /\ currentQuestionIndex' = 0
               /\ SessionStarts
         ]_vars

\* The index reached K by an advance.
C16_Witness ==
    /\ lastEvent = "next"
    /\ K = 1
    /\ currentQuestionIndex = K

\* C17: with loads overlapping in time, the question set changes only in the
\* step in which a load settles with an array, and that step also leaves
\* score 0, index 0, questionAnswered false and no evaluated submission; a
\* load that settles successfully leaves a sample of its own bank; and in
\* every state the session's questions are records of the array that settled
\* last.
C17_LoadsReplaceWholesale ==
    /\ [][ /\ activeQuizQuestions' # activeQuizQuestions => SessionStarts
           /\ SessionStarts =>
                /\ score' = 0
                /\ currentQuestionIndex' = 0
                /\ ~questionAnswered'
                /\ evaluated' = <<>>
                /\ BagCardinality(loads') = BagCardinality(loads) - 1
           /\ (SessionStarts /\ loadStatus' = "ok") =>
                /\ activeQuizQuestions'
                        \in Samples(quizData'.data, RandomResolution)
                /\ presented' = IF Len(activeQuizQuestions') = 0 THEN <<>>
                                ELSE << activeQuizQuestions'[1].question >>
         ]_vars
    /\ [](quizData.kind = "array" =>
            /\ Range(activeQuizQuestions) \subseteq Range(quizData.data)
            /\ K = Min(Len(quizData.data), QUIZ_LENGTH))

\* A load settled with an array while another load was still in flight.
C17_Witness ==
    /\ lastEvent = "jsonArray"
    /\ loadStatus = "ok"
    /\ loads # EmptyBag
    /\ K = 2
    /\ score = 0
    /\ currentQuestionIndex = 0

\* C18: for the bank just loaded (n distinct records), the index choices of
\* shuffleArray are one j in 0..i for each i from n-1 down to 1; every choice
\* sequence yields a rearrangement of the bank, every rearrangement is yielded
\* by some choice sequence, distinct choice sequences yield distinct
\* rearrangements, and there are n! of each; the session's questions are one
\* of them.
C18_UnbiasedShuffle ==
    quizData.kind = "array" =>
        LET data == quizData.data
            n == Len(data)
            choices == ChoiceSeqs(n, MaxShuffle)
            results == { shuffleArray(data, js) : js \in choices }
        IN  /\ choices = { js \in [1..(n - 1) -> 0..(n - 1)] :
                                \A i \in 1..(n - 1) : js[i] \in 0..i }
            /\ results = Rearrangements(data)
            /\ \A js1, js2 \in choices :
                    shuffleArray(data, js1) = shuffleArray(data, js2) => js1 = js2
            /\ Cardinality(choices) = Factorial(n)
            /\ Cardinality(results) = Factorial(n)
            /\ activeQuizQuestions \in results

\* A bank of four was loaded and its last record is presented first.
C18_Witness ==
    /\ lastEvent = "jsonArray"
    /\ loadStatus = "ok"
    /\ Len(quizData.data) = 4
    /\ K = 4
    /\ activeQuizQuestions[1] = quizData.data[4]
    /\ activeQuizQuestions[4] = quizData.data[2]

\* C19: after a successful load of a non-empty bank, a user who keeps
\* submitting and advancing brings the session to its end; the session is at
\* its end exactly when K submissions have been evaluated and the index has
\* been advanced K times, and not before.
C19_SessionCompletes ==
    /\ (loadStatus = "ok" /\ K > 0) ~> Complete
    /\ []((loadStatus = "ok" /\ K > 0) =>
            /\ Complete <=> (currentQuestionIndex = K /\ Len(evaluated) = K)
            /\ Len(evaluated) <= K
            /\ Len(evaluated) \in {currentQuestionIndex, currentQuestionIndex + 1})

\* A session of two from the page load has reached its end.
C19_Witness ==
    /\ settledOrigin = "onload"
    /\ loadStatus = "ok"
    /\ Complete
    /\ K = 2
    /\ Len(evaluated) = 2
    /\ currentQuestionIndex = 2

\* C20: after a session start, after every evaluation and at the summary, the
\* score display reads "Score: <score> / <K>" with K the number of session
\* questions, the total the summary message uses.
C20_ScoreDisplayTotal ==
    (lastEvent \in {"jsonArray", "checkAnswer"} \/ Complete) =>
        /\ scoreDisplay = << "Score: ", ToString(score), " / ", ToString(K) >>
        /\ (Complete /\ score # K) =>
                resultMessage.textContent[4] = scoreDisplay[4]

====
